---- MODULE Spec2Model ----
(***************************************************************************)
(* The clipboard history store of Lanaya: src-tauri/src/core/database.rs.  *)
(* One SQLite table `record` behind a single connection; every public      *)
(* method of SqliteDB is one action.  Strings are sequences of one-letter  *)
(* strings, so that LIKE, the digest and the decimal rendering of numbers  *)
(* are computed letter by letter.                                          *)
(***************************************************************************)
EXTENDS Integers, Sequences, FiniteSets, TLC

VARIABLES
    store,  \* the rows of table `record`: [id, content, md5, create_time, is_favorite]
    seq,    \* sqlite_sequence of `record` (AUTOINCREMENT): the largest id ever given
    now,    \* chrono::Local::now().timestamp_millis()
    last,   \* the last call on the connection: its name, arguments, result, and the rows before it
    assigned, \* history: for every row in the table, the id insert_record returned when it made the row
    issued,   \* history: the ids insert_record returned, in the order of the calls
    pending   \* the callers that are between two statements of insert_if_not_exist

vars == <<store, seq, now, last, assigned, issued, pending>>

\* ------------------------------------------------------------------ bounds

MaxTime == 1     \* the clock stops ticking here
MaxId == 3       \* no row is created beyond this id in the general specification
MaxLimit == 1    \* limits handed to find_by_key and delete_over_limit
MaxBulk == 53    \* rows loaded by the eviction scenario

\* the margin of delete_over_limit
Margin == 50

\* ------------------------------------------------------------------ strings

Min(a, b) == IF a < b THEN a ELSE b

Digits == <<"0", "1", "2", "3", "4", "5", "6", "7", "8", "9">>

HexDigits == <<"0", "1", "2", "3", "4", "5", "6", "7", "8", "9", "a", "b", "c", "d", "e", "f">>

\* the ASCII code of a letter
Code(ch) ==
    CASE ch = "a" -> 97 [] ch = "b" -> 98 [] ch = "A" -> 65 [] ch = "B" -> 66
      [] ch = "_" -> 95 [] ch = "%" -> 37
      [] ch = "0" -> 48 [] ch = "1" -> 49 [] ch = "2" -> 50 [] ch = "3" -> 51
      [] ch = "4" -> 52 [] ch = "5" -> 53 [] ch = "6" -> 54 [] ch = "7" -> 55
      [] ch = "8" -> 56 [] ch = "9" -> 57

\* SQLite folds the 26 ASCII upper-case letters for LIKE
Lower(ch) == CASE ch = "A" -> "a" [] ch = "B" -> "b" [] OTHER -> ch

\* u64::to_string / usize::to_string: the decimal numeral
RECURSIVE to_string(_)
to_string(n) ==
    IF n < 10 THEN <<Digits[n + 1]>>
    ELSE to_string(n \div 10) \o <<Digits[(n % 10) + 1]>>

\* SQLite turning a text bound to LIMIT into an integer (numeric affinity)
RECURSIVE sqlite_integer(_)
sqlite_integer(text) ==
    IF text = <<>> THEN 0
    ELSE 10 * sqlite_integer(SubSeq(text, 1, Len(text) - 1))
         + (Code(text[Len(text)]) - 48)

\* format!("%{}%", key)
like_pattern(key) == <<"%">> \o key \o <<"%">>

\* SQLite's LIKE without ESCAPE: % is any run of letters, _ is any one letter,
\* every other letter matches itself up to ASCII case
RECURSIVE Like(_, _)
Like(pattern, text) ==
    IF pattern = <<>> THEN text = <<>>
    ELSE IF Head(pattern) = "%"
         THEN Like(Tail(pattern), text)
              \/ (text # <<>> /\ Like(pattern, Tail(text)))
    ELSE IF text = <<>> THEN FALSE
    ELSE /\ (Head(pattern) = "_" \/ Lower(Head(pattern)) = Lower(Head(text)))
         /\ Like(Tail(pattern), Tail(text))

\* string_util::md5: a deterministic digest of fixed length (four hex digits here),
\* folded over the letters; it is one-to-one on the strings of at most two letters
DigestMod == 65521

DigestMul == 131

RECURSIVE DigestFold(_)
DigestFold(text) ==
    IF text = <<>> THEN 0
    ELSE (DigestFold(SubSeq(text, 1, Len(text) - 1)) * DigestMul
          + Code(text[Len(text)])) % DigestMod

md5(text) ==
    LET h == DigestFold(text)
    IN  << HexDigits[((h \div 4096) % 16) + 1], HexDigits[((h \div 256) % 16) + 1],
           HexDigits[((h \div 16) % 16) + 1], HexDigits[(h % 16) + 1] >>

\* string_util::highlight: every occurrence of key in content, left to right and
\* without overlap, wrapped in a marker; an empty key marks nothing
RECURSIVE highlight(_, _)
highlight(key, content) ==
    IF key = <<>> \/ Len(content) < Len(key) THEN content
    ELSE IF SubSeq(content, 1, Len(key)) = key
         THEN <<"<">> \o key \o <<">">>
              \o highlight(key, SubSeq(content, Len(key) + 1, Len(content)))
    ELSE <<Head(content)>> \o highlight(key, Tail(content))

\* Option<String>
None == <<>>

Some(x) == <<x>>

\* ------------------------------------------------------------------ inputs

\* content strings of the general specification
Contents == { <<"a">>, <<"A">>, <<"a", "b">> }

\* search keys
Keys == { <<>>, <<"A">>, <<"_">>, <<"a", "b">> }

Limits == 0 .. MaxLimit

\* the Record a caller hands to insert_if_not_exist: only content and is_favorite
\* are read, id, md5 and create_time are whatever the caller left there
CallerRecord(c, f) ==
    [id |-> 0, content |-> c, md5 |-> <<>>, create_time |-> 0, is_favorite |-> f,
     content_highlight |-> None]

\* the same with the md5 the caller wrote into the Record
CallerRecordOf(c, f, m) == [CallerRecord(c, f) EXCEPT !.md5 = m]

\* what callers leave in Record.md5: nothing, or the digest of "a"
CallerDigests == { <<>>, md5(<<"a">>) }

\* ------------------------------------------------------------------ the table

Row(id, content, digest, t, f) ==
    [id |-> id, content |-> content, md5 |-> digest, create_time |-> t, is_favorite |-> f]

MaxOf(S) == IF S = {} THEN 0 ELSE CHOOSE x \in S : \A y \in S : y <= x

\* INTEGER PRIMARY KEY without AUTOINCREMENT: one more than the largest id in the table
next_rowid_plain(S, q) == MaxOf({r.id : r \in S}) + 1

\* INTEGER PRIMARY KEY AUTOINCREMENT: one more than the largest id ever given
next_rowid(S, q) == MaxOf({q} \cup {r.id : r \in S}) + 1

\* the sequences that hold every element of S once
Perms(S) ==
    {p \in [1 .. Cardinality(S) -> S] : \A i, j \in 1 .. Cardinality(S) : i # j => p[i] # p[j]}

\* ORDER BY create_time ASC
order_by_create_time_asc(S) ==
    {p \in Perms(S) : \A i \in 1 .. Cardinality(S) - 1 : p[i].create_time <= p[i + 1].create_time}

\* ORDER BY create_time DESC: rows of equal create_time come in an order SQL leaves open
order_by_create_time_desc(S) ==
    {p \in Perms(S) : \A i \in 1 .. Cardinality(S) - 1 : p[i].create_time >= p[i + 1].create_time}

\* a row as the Record that find_all and find_by_key build
as_record(row, hl) ==
    [id |-> row.id, content |-> row.content, md5 |-> row.md5,
     create_time |-> row.create_time, is_favorite |-> row.is_favorite,
     content_highlight |-> hl]

\* ------------------------------------------------------------------ the last call

\* ok: the call returned Ok; ret: the i64 of Ok(i64); lookup: how the lookup inside
\* insert_if_not_exist ended; preseq: sqlite_sequence before the call
NoCall ==
    [op |-> "new", content |-> <<>>, md5 |-> <<>>, fav |-> FALSE, id |-> 0, key |-> <<>>,
     limit |-> 0, time |-> 0, res |-> <<>>, pre |-> {}, preseq |-> 0, ok |-> TRUE, ret |-> 0,
     lookup |-> "none"]

Call(op) == [NoCall EXCEPT !.op = op, !.time = now, !.pre = store, !.preseq = seq]

\* ------------------------------------------------------------------ operations

Init ==
    /\ store = {}
    /\ seq = 0
    /\ now = 0
    /\ last = NoCall
    /\ assigned = {}
    /\ issued = <<>>
    /\ pending = {}

\* the ids handed out, for the rows that are still there
still_assigned(A, S) == {a \in A : \E row \in S : row.id = a.id}

\* File::create without looking whether the file is there
init_file_truncate(exists, S, q) == [rows |-> {}, seq |-> 0]

\* init: the file after it; an absent file is created empty, and `create table if not
\* exists` leaves a table that is there alone
init_file(exists, S, q) ==
    IF exists THEN [rows |-> S, seq |-> q] ELSE [rows |-> {}, seq |-> 0]

\* init on the file an open connection works on
init ==
    LET file == init_file(TRUE, store, seq)
    IN  /\ store' = file.rows
        /\ seq' = file.seq
        /\ assigned' = still_assigned(assigned, store')
        /\ last' = Call("init")
        /\ UNCHANGED <<now, issued, pending>>

\* the clock moves on
Tick ==
    /\ now < MaxTime
    /\ now' = now + 1
    /\ UNCHANGED <<store, seq, last, assigned, issued, pending>>

\* an INSERT that binds the md5 of the caller's Record
insert_record_rows_caller_md5(S, q, r, t) ==
    S \cup {Row(next_rowid(S, q), r.content, r.md5, t, r.is_favorite)}

\* insert_record: the rows and the sequence after the INSERT
insert_record_rows(S, q, r, t) ==
    S \cup {Row(next_rowid(S, q), r.content, md5(r.content), t, r.is_favorite)}

\* returning `res`, the number of rows the INSERT changed
insert_record_ret_changes(S, q) == 1

\* insert_record: the i64 it returns, conn.last_insert_rowid()
insert_record_ret(S, q) == next_rowid(S, q)

insert_record(r) ==
    /\ store' = insert_record_rows(store, seq, r, now)
    /\ seq' = next_rowid(store, seq)
    /\ assigned' = assigned \cup {[content |-> r.content, id |-> next_rowid(store, seq)]}
    /\ issued' = Append(issued, next_rowid(store, seq))
    /\ last' = [Call("insert_record") EXCEPT
                    !.content = r.content, !.md5 = r.md5, !.fav = r.is_favorite,
                    !.ret = insert_record_ret(store, seq)]
    /\ UNCHANGED <<now, pending>>

\* a lookup that never finds the digest
find_record_by_md5_miss(S, digest) == {}

\* find_record_by_md5: the ids query_row may hand back; none is Err(QueryReturnedNoRows)
find_record_by_md5(S, digest) == {row.id : row \in {x \in S : x.md5 = digest}}

\* an UPDATE that loses the new time
update_record_create_time_stale(S, id, t) == S

\* an UPDATE that rewrites the whole row from a fresh Record
update_record_create_time_reset(S, id, t) ==
    {IF row.id = id THEN [row EXCEPT !.create_time = t, !.is_favorite = FALSE] ELSE row : row \in S}

\* update_record_create_time: the rows after the UPDATE
update_record_create_time(S, id, t) ==
    {IF row.id = id THEN [row EXCEPT !.create_time = t] ELSE row : row \in S}

insert_if_not_exist(r) ==
    LET found == find_record_by_md5(store, md5(r.content))
    IN  /\ \/ /\ found # {}
              /\ \E id \in found : store' = update_record_create_time(store, id, now)
              /\ seq' = seq
              /\ assigned' = assigned
              /\ issued' = issued
           \/ /\ found = {}
              /\ store' = insert_record_rows(store, seq, r, now)
              /\ seq' = next_rowid(store, seq)
              /\ assigned' = assigned \cup {[content |-> r.content, id |-> next_rowid(store, seq)]}
              /\ issued' = Append(issued, next_rowid(store, seq))
        /\ last' = [Call("insert_if_not_exist") EXCEPT
                        !.content = r.content, !.md5 = r.md5, !.fav = r.is_favorite,
                        !.lookup = IF found = {} THEN "no_rows" ELSE "row"]
        /\ UNCHANGED <<now, pending>>

clear_data ==
    /\ store' = {}
    /\ last' = Call("clear_data")
    /\ assigned' = still_assigned(assigned, store')
    /\ UNCHANGED <<seq, now, issued, pending>>

\* an UPDATE of is_favorite without its WHERE
mark_favorite_rows_all(S, id) == {[row EXCEPT !.is_favorite = TRUE] : row \in S}

\* mark_favorite: the rows after the UPDATE
mark_favorite_rows(S, id) ==
    {IF row.id = id THEN [row EXCEPT !.is_favorite = TRUE] ELSE row : row \in S}

mark_favorite(id) ==
    /\ store' = mark_favorite_rows(store, id)
    /\ last' = [Call("mark_favorite") EXCEPT !.id = id]
    /\ UNCHANGED <<seq, now, assigned, issued, pending>>

\* find_all: the vectors it may return
find_all_results(S) ==
    {[i \in 1 .. Len(p) |-> as_record(p[i], None)] : p \in order_by_create_time_desc(S)}

find_all ==
    /\ \E res \in find_all_results(store) : last' = [Call("find_all") EXCEPT !.res = res]
    /\ UNCHANGED <<store, seq, now, assigned, issued, pending>>

\* find_by_key: the vectors it may return
find_by_key_results(S, key, limit) ==
    LET hit == {row \in S : Like(like_pattern(key), row.content)}
        n == Min(sqlite_integer(to_string(limit)), Cardinality(hit))
        build(row) ==
            LET content_highlight == Some(highlight(key, row.content))
            IN  as_record(row, None)
    IN  {[i \in 1 .. n |-> build(p[i])] : p \in order_by_create_time_desc(hit)}

find_by_key(key, limit) ==
    /\ \E res \in find_by_key_results(store, key, limit) :
          last' = [Call("find_by_key") EXCEPT !.key = key, !.limit = limit, !.res = res]
    /\ UNCHANGED <<store, seq, now, assigned, issued, pending>>

\* Statement::column_count of "SELECT count(*) FROM record": the columns of the result
count_columns == <<"count(*)">>

column_count(columns) == Len(columns)

\* DELETE ... WHERE id IN (SELECT id FROM record ORDER BY id DESC LIMIT ?1, 1000000000):
\* the rows that are left, the `limit` largest ids
delete_beyond(S, limit) ==
    {row \in S : Cardinality({x \in S : x.id > row.id}) < limit}

\* delete_over_limit with the number of rows in `count`
delete_over_limit_rows_counted(S, limit) ==
    LET count == Cardinality(S)
    IN  IF count < Margin + limit THEN S ELSE delete_beyond(S, limit)

\* delete_over_limit: the rows after the call
delete_over_limit_rows(S, limit) ==
    LET count == column_count(count_columns)
    IN  IF count < Margin + limit THEN S ELSE delete_beyond(S, limit)

delete_over_limit(limit) ==
    /\ store' = delete_over_limit_rows(store, limit)
    /\ last' = [Call("delete_over_limit") EXCEPT !.limit = limit]
    /\ assigned' = still_assigned(assigned, store')
    /\ UNCHANGED <<seq, now, issued, pending>>

\* ------------------------------------------------------------------ specifications

Insert == \E c \in Contents, f \in BOOLEAN :
             /\ Cardinality(find_record_by_md5(store, md5(c))) > 0 \/ seq < MaxId
             /\ insert_if_not_exist(CallerRecord(c, f))

MarkFavorite == \E id \in 1 .. MaxId : mark_favorite(id)

Search == \E key \in Keys, limit \in Limits : find_by_key(key, limit)

Evict == \E limit \in Limits : delete_over_limit(limit)

Next == Tick \/ Insert \/ clear_data \/ MarkFavorite \/ find_all \/ Search \/ Evict

Spec == Init /\ [][Next]_vars

\* The eviction scenario: distinct strings "1", "2", ... are inserted one after the
\* other, the first one is touched again, and delete_over_limit is called along the
\* way.  The clock is left alone until Margin rows are there: the times of the bulk
\* rows play no part in delete_over_limit.
Load ==
    /\ seq < MaxBulk
    /\ insert_if_not_exist(CallerRecord(to_string(seq + 1), FALSE))

Touch ==
    /\ Cardinality(store) >= Margin
    /\ find_record_by_md5(store, md5(to_string(1))) # {}
    /\ insert_if_not_exist(CallerRecord(to_string(1), FALSE))

LateTick == Cardinality(store) >= Margin /\ Tick

EvictNext == Load \/ Touch \/ LateTick \/ Evict

EvictSpec == Init /\ [][EvictNext]_vars

\* Two callers, each with a connection of its own to the same file, inside
\* insert_if_not_exist at the same time: the lookup and the statement that follows it
\* are two steps, and steps of the other caller may come between them.
Callers == {"capture", "ui"}

\* line 87: the lookup; the id found (0: Err) waits with the caller
lookup_step(p, r) ==
    LET found == find_record_by_md5(store, md5(r.content))
    IN  /\ ~ \E e \in pending : e.caller = p
        /\ \E id \in (IF found = {} THEN {0} ELSE found) :
              pending' = pending \cup {[caller |-> p, r |-> r, id |-> id]}
        /\ UNCHANGED <<store, seq, now, last, assigned, issued>>

\* lines 88-95: the arm the lookup chose: the UPDATE, or the INSERT
finish_step(p) ==
    \E e \in pending :
        /\ e.caller = p
        /\ \/ /\ e.id # 0
              /\ store' = update_record_create_time(store, e.id, now)
              /\ UNCHANGED <<seq, assigned, issued>>
           \/ /\ e.id = 0
              /\ seq < MaxId
              /\ store' = insert_record_rows(store, seq, e.r, now)
              /\ seq' = next_rowid(store, seq)
              /\ assigned' = assigned \cup {[content |-> e.r.content, id |-> next_rowid(store, seq)]}
              /\ issued' = Append(issued, next_rowid(store, seq))
        /\ last' = [Call("insert_if_not_exist") EXCEPT
                        !.content = e.r.content, !.md5 = e.r.md5, !.fav = e.r.is_favorite,
                        !.lookup = IF e.id = 0 THEN "no_rows" ELSE "row"]
        /\ pending' = pending \ {e}
        /\ now' = now

Lookup == \E p \in Callers, c \in Contents : lookup_step(p, CallerRecord(c, FALSE))

Finish == \E p \in Callers : finish_step(p)

ConcNext == Lookup \/ Finish \/ Tick \/ clear_data

ConcSpec == Init /\ [][ConcNext]_vars

\* insert_if_not_exist when the lookup fails for another reason than `no rows`: the
\* Err(_e) arm is taken all the same; the INSERT then succeeds, or fails as well
insert_if_not_exist_lookup_failed(r) ==
    /\ \/ /\ store' = insert_record_rows(store, seq, r, now)
          /\ seq' = next_rowid(store, seq)
          /\ assigned' = assigned \cup {[content |-> r.content, id |-> next_rowid(store, seq)]}
          /\ issued' = Append(issued, next_rowid(store, seq))
          /\ last' = [Call("insert_if_not_exist") EXCEPT
                          !.content = r.content, !.md5 = r.md5, !.fav = r.is_favorite,
                          !.lookup = "error"]
       \/ /\ UNCHANGED <<store, seq, assigned, issued>>
          /\ last' = [Call("insert_if_not_exist") EXCEPT
                          !.content = r.content, !.md5 = r.md5, !.fav = r.is_favorite,
                          !.lookup = "error", !.ok = FALSE]
    /\ UNCHANGED <<now, pending>>

FailedLookupInsert == \E c \in Contents :
    /\ seq < MaxId
    /\ insert_if_not_exist_lookup_failed(CallerRecord(c, FALSE))

FaultNext == Insert \/ FailedLookupInsert \/ Tick \/ clear_data \/ MarkFavorite

FaultSpec == Init /\ [][FaultNext]_vars

\* The writing methods of SqliteDB with insert_record and init among them, called with
\* Records that carry any md5.
ApiContents == { <<"a">>, <<"a", "b">> }

InsertRecord == \E c \in ApiContents, m \in CallerDigests :
    /\ seq < MaxId
    /\ insert_record(CallerRecordOf(c, FALSE, m))

InsertOrTouch == \E c \in ApiContents, m \in CallerDigests :
    /\ find_record_by_md5(store, md5(c)) # {} \/ seq < MaxId
    /\ insert_if_not_exist(CallerRecordOf(c, FALSE, m))

ApiNext == InsertRecord \/ InsertOrTouch \/ MarkFavorite \/ clear_data \/ init \/ Tick

ApiSpec == Init /\ [][ApiNext]_vars

\* ------------------------------------------------------------------ claims

\* the literal, case-exact substring relation
Contains(text, q) ==
    \E i \in 0 .. Len(text) - Len(q) : SubSeq(text, i + 1, i + Len(q)) = q

\* the row a returned Record shows
RowOf(rec) == Row(rec.id, rec.content, rec.md5, rec.create_time, rec.is_favorite)

Returned == {last.res[i] : i \in 1 .. Len(last.res)}

NonIncreasing(res) == \A i \in 1 .. Len(res) - 1 : res[i].create_time >= res[i + 1].create_time

\* the last call was insert_if_not_exist of a content that had a row already
Touched == last.op = "insert_if_not_exist" /\ \E row \in last.pre : row.content = last.content

\* C1: in every reachable state there is at most one row per fingerprint (md5) value.
C1_OneRowPerFingerprint == \A r1, r2 \in store : r1.md5 = r2.md5 => r1 = r2

\* C1 witness: a content was inserted a second time beside another row.
C1_Witness == Touched /\ Cardinality(store) >= 2 /\ C1_OneRowPerFingerprint

\* C2: after insert_if_not_exist(c) on a store that holds c's row from an earlier insert,
\* exactly one row has content c, its id is the one the creating insert was given and
\* its create_time is the time of this call.
C2_SecondInsertTouches ==
    Touched =>
        \E row \in store :
            /\ row.content = last.content
            /\ \A x \in store : x.content = last.content => x = row
            /\ \E a \in assigned : a.content = last.content /\ a.id = row.id
            /\ \A a \in assigned : a.content = last.content => a.id = row.id
            /\ row.create_time = last.time

\* C2 witness: the second insert came at a later time than the first, beside another row.
C2_Witness ==
    /\ Touched
    /\ \E row \in last.pre : row.content = last.content /\ row.create_time < last.time
    /\ Cardinality(store) >= 2

\* C3: a delete_over_limit(capacity) called with more than capacity + 50 rows leaves
\* exactly capacity rows.
C3_EvictionConverges ==
    (last.op = "delete_over_limit" /\ Cardinality(last.pre) > last.limit + Margin)
        => Cardinality(store) = last.limit

\* C4: a delete_over_limit(capacity) called with at most capacity + 50 rows leaves the
\* rows as they were; rows go only when there were more than capacity + 50.
C4_EvictionFrame ==
    last.op = "delete_over_limit" =>
        /\ Cardinality(last.pre) <= last.limit + Margin => store = last.pre
        /\ store # last.pre => Cardinality(last.pre) > last.limit + Margin

\* C4 witness: delete_over_limit was called with exactly capacity + 50 rows.
C4_Witness ==
    /\ last.op = "delete_over_limit"
    /\ Cardinality(last.pre) = last.limit + Margin
    /\ store = last.pre

\* C5: every Record find_by_key(q, n) returns has a content that holds q as a literal,
\* case-exact substring.
C5_LiteralSubstring ==
    last.op = "find_by_key" => \A rec \in Returned : Contains(rec.content, last.key)

\* C6: find_by_key(q, n) returns at most n Records, non-increasing in create_time, and
\* they are the newest rows whose content holds q; the empty q matches every row.
C6_NewestMatches ==
    last.op = "find_by_key" =>
        LET match == {row \in store : Contains(row.content, last.key)}
            got == {RowOf(rec) : rec \in Returned}
        IN  /\ Len(last.res) <= last.limit
            /\ NonIncreasing(last.res)
            /\ got \subseteq match
            /\ Cardinality(got) = Len(last.res)
            /\ Len(last.res) = Min(last.limit, Cardinality(match))
            /\ \A kept \in got, left \in match \ got : left.create_time <= kept.create_time
            /\ last.key = <<>> => Len(last.res) = Min(last.limit, Cardinality(store))

\* The same with LIKE as the matching relation: what find_by_key does keep of C6.
SearchNewestLike ==
    last.op = "find_by_key" =>
        LET match == {row \in store : Like(like_pattern(last.key), row.content)}
            got == {RowOf(rec) : rec \in Returned}
        IN  /\ Len(last.res) <= last.limit
            /\ NonIncreasing(last.res)
            /\ got \subseteq match
            /\ Cardinality(got) = Len(last.res)
            /\ Len(last.res) = Min(last.limit, Cardinality(match))
            /\ \A kept \in got, left \in match \ got : left.create_time <= kept.create_time
            /\ last.key = <<>> => Len(last.res) = Min(last.limit, Cardinality(store))

\* C7: every Record find_by_key(q, n) returns carries content_highlight, the content
\* with every occurrence of q marked, and the content itself as stored.
C7_HighlightPopulated ==
    last.op = "find_by_key" =>
        \A rec \in Returned :
            /\ rec.content_highlight # None
            /\ rec.content_highlight = Some(highlight(last.key, rec.content))
            /\ \E row \in store : row.id = rec.id /\ row.content = rec.content

\* C8: find_all returns every row exactly once, non-increasing in create_time, each
\* with content_highlight absent.
C8_ListAll ==
    last.op = "find_all" =>
        /\ Len(last.res) = Cardinality(store)
        /\ {RowOf(rec) : rec \in Returned} = store
        /\ NonIncreasing(last.res)
        /\ \A rec \in Returned : rec.content_highlight = None

\* C8 witness: find_all returned three rows, of which two share a create_time and one
\* is older.
C8_Witness ==
    /\ last.op = "find_all"
    /\ Len(last.res) = 3
    /\ \E i \in 1 .. 2 : last.res[i].create_time > last.res[i + 1].create_time
    /\ \E i \in 1 .. 2 : last.res[i].create_time = last.res[i + 1].create_time

\* C9: after insert_if_not_exist(c), whatever find_all returns has c's Record first.
C9_InsertedIsFirst ==
    last.op = "insert_if_not_exist" =>
        \A res \in find_all_results(store) : Len(res) >= 1 /\ res[1].content = last.content

\* C10: no call turns is_favorite of a row that stays from true to false, and the
\* Records that find_all and find_by_key return show is_favorite as the row has it.
C10_FavoriteStays ==
    /\ [](last.op \in {"find_all", "find_by_key"} =>
             \A rec \in Returned : \E row \in store : row.id = rec.id /\ row.is_favorite = rec.is_favorite)
    /\ [][\A row \in store : row.is_favorite =>
             \A x \in store' : x.id = row.id => x.is_favorite]_vars

\* C10 witness: a favorite row was touched by a caller whose Record says is_favorite =
\* false, and is a favorite still.
C10_Witness ==
    /\ Touched
    /\ last.fav = FALSE
    /\ \E row \in last.pre :
          /\ row.content = last.content
          /\ row.is_favorite
          /\ \E x \in store : x.id = row.id /\ x.is_favorite /\ x.create_time > row.create_time

\* C11: mark_favorite(id) with an id no row has returns Ok and leaves every row as it was.
C11_UnknownIdIsNoOp ==
    (last.op = "mark_favorite" /\ ~ \E row \in last.pre : row.id = last.id)
        => (last.ok /\ store = last.pre)

\* C11 witness: mark_favorite was called with an id no row has, on a table that holds
\* rows that are not favorites.
C11_Witness ==
    /\ last.op = "mark_favorite"
    /\ ~ \E row \in last.pre : row.id = last.id
    /\ \E row \in last.pre : ~ row.is_favorite
    /\ last.ok
    /\ store = last.pre

StrictlyIncreasing(ids) == \A i \in 1 .. Len(ids) - 1 : ids[i] < ids[i + 1]

\* C12: a row keeps its id over every call that leaves it in the table, and the ids
\* insert_record hands out are strictly increasing over the whole history, rows that
\* were deleted since included.
C12_IdsFixedAndFresh ==
    /\ StrictlyIncreasing(issued)
    /\ \A row \in store : \E i \in 1 .. Len(issued) : issued[i] = row.id
    /\ \A old \in last.pre, row \in store :
          (row.content = old.content) <=> (row.id = old.id)

\* C12 witness: after clear_data emptied a table of two rows or more, a content that had
\* a row before was inserted again and got a larger id than any before.
C12_Witness ==
    /\ last.op = "insert_if_not_exist"
    /\ last.pre = {}
    /\ Len(issued) >= 3
    /\ \E row \in store : row.id = issued[Len(issued)] /\ row.id >= 3
    /\ StrictlyIncreasing(issued)

\* C14: a touch changes create_time of the row found and nothing else: its id, content,
\* md5 and is_favorite stay, no row is added or removed, every other row stays.
C14_TouchFrame ==
    Touched =>
        \E old \in last.pre, row \in store :
            /\ old.content = last.content
            /\ row = [old EXCEPT !.create_time = row.create_time]
            /\ store \ {row} = last.pre \ {old}
            /\ Cardinality(store) = Cardinality(last.pre)

\* C14 witness: a row that is no favorite was touched at a later time, beside two
\* other rows, by a caller whose Record says is_favorite = true.
C14_Witness ==
    /\ Touched
    /\ last.fav
    /\ Cardinality(store) = 3
    /\ \E old \in last.pre :
          /\ old.content = last.content
          /\ ~ old.is_favorite
          /\ old.create_time < last.time
          /\ [old EXCEPT !.create_time = last.time] \in store

\* C13: with two callers inside insert_if_not_exist at once, their statements
\* interleaved in any order, no two rows ever have the same fingerprint.
C13_AtomicInsertOrTouch == Cardinality({row.md5 : row \in store}) = Cardinality(store)

\* C15: when the lookup finds no row, insert_if_not_exist adds exactly one row, with an
\* id never given before, the content given, and is_favorite = false whatever the
\* caller's Record says.
C15_CreatesUnfavored ==
    (last.op = "insert_if_not_exist" /\ last.lookup = "no_rows") =>
        \E row \in store :
            /\ row \notin last.pre
            /\ store = last.pre \cup {row}
            /\ row.id > last.preseq
            /\ row.content = last.content
            /\ row.is_favorite = FALSE

\* C16: insert_record returns the id of the row it made; the first insert_record on a
\* fresh table returns 1.
C16_ReturnsRowId ==
    last.op = "insert_record" =>
        /\ last.ok
        /\ \E row \in store :
              /\ row \notin last.pre
              /\ store = last.pre \cup {row}
              /\ row.content = last.content
              /\ row.id = last.ret
        /\ Len(issued) = 1 => last.ret = 1

\* C16 witness: insert_record returned 3 for the third row, a second row of a content
\* that is in the table already.
C16_Witness ==
    /\ last.op = "insert_record"
    /\ last.ret = 3
    /\ \E old \in last.pre : old.content = last.content
    /\ \E row \in store \ last.pre : row.id = 3

\* C17: init on a table that holds rows leaves every row and the id sequence as they
\* were.
C17_InitIdempotent ==
    last.op = "init" => (last.ok /\ store = last.pre /\ seq = last.preseq)

\* C17 witness: init was called on a table with a favorite row and a deleted id.
C17_Witness ==
    /\ last.op = "init"
    /\ \E row \in store : row.is_favorite
    /\ seq > Cardinality(store)
    /\ store = last.pre

\* the rows of S with the n largest ids
LargestIds(S, n) == {row \in S : Cardinality({x \in S : x.id > row.id}) < n}

\* C18: a delete_over_limit(capacity) called with more than capacity + 50 rows leaves
\* exactly the capacity rows of largest id, whatever their create_time: the row of the
\* smallest id goes even when it was touched last.
C18_LargestIdsSurvive ==
    (last.op = "delete_over_limit" /\ Cardinality(last.pre) > last.limit + Margin)
        => {row.id : row \in store} = {row.id : row \in LargestIds(last.pre, last.limit)}

\* C19: a row is added only after a lookup that found no row; when the lookup failed
\* otherwise, insert_if_not_exist returns the error and the rows stay as they were.
C19_LookupFailureReturned ==
    last.op = "insert_if_not_exist" =>
        /\ {row.id : row \in store} \ {row.id : row \in last.pre} # {} => last.lookup = "no_rows"
        /\ last.lookup = "error" => (~ last.ok /\ store = last.pre)

\* C20: the md5 of every row is the digest of the row's content, whatever md5 the
\* callers' Records carried.
C20_Md5OfContent == \A row \in store : row.md5 = md5(row.content)

\* C20 witness: a caller's Record carried the digest of another content, and the row
\* made from it has the digest of its own.
C20_Witness ==
    /\ last.op \in {"insert_record", "insert_if_not_exist"}
    /\ last.md5 # <<>>
    /\ last.md5 # md5(last.content)
    /\ \E row \in store \ last.pre : row.content = last.content /\ row.md5 = md5(last.content)

====
